---- MODULE Spec2Model ----
(***************************************************************************)
(* Session state machine of the Gmail draft generator.                     *)
(*                                                                         *)
(* The repository holds two Streamlit scripts: app.py (the basic variant:  *)
(* authenticate, generate, create a draft) and app_demo.py (the approval   *)
(* variant: the generated mail is held in the session until the operator   *)
(* sends or cancels it).  A Streamlit script is re-run from the top on     *)
(* every button press, so one button press is one action here; the remote  *)
(* calls a handler makes are part of that action and their outcome         *)
(* (success or an exception) is chosen nondeterministically.               *)
(*                                                                         *)
(* Python strings the code computes on (email addresses, the To and CC     *)
(* inputs, the prompt) are sequences of one-character strings.  An         *)
(* optional value is a sequence of length at most one: None is <<>> and a  *)
(* value v is <<v>>.                                                       *)
(***************************************************************************)
EXTENDS Integers, Sequences, FiniteSets, TLC

\* Bound of the model: number of remote drafts the provider hands out.
MaxDrafts == 2

\* Bound of the model: length of the text parse_emails is applied to.
MaxInputLen == 4

VARIABLES
    variant,            \* "basic" (app.py) or "approval" (app_demo.py)
    user_service,       \* st.session_state.user_service: the principal the service is bound to
    user_email,         \* st.session_state.user_email
    generated_email,    \* st.session_state.generated_email     (approval)
    generated_subject,  \* st.session_state.generated_subject   (approval)
    generated_to,       \* st.session_state.generated_to        (approval)
    generated_cc,       \* st.session_state.generated_cc        (approval)
    draft_id,           \* st.session_state.draft_id            (approval)
    tokens,             \* the token files present under tokens/
    drafts,             \* the provider's drafts: identifier -> owner and content
    nextId,             \* the identifier the provider gives to the next draft
    lastAction,         \* the handler that ran last
    lastCalls,          \* the external calls that handler issued, in order
    report,             \* what that handler showed to the operator
    fn_input,           \* the argument a helper function is applied to (helper specifications)
    fn_output           \* what the helper function returned for it

session == <<user_service, user_email>>
pending == <<generated_email, generated_subject, generated_to, generated_cc, draft_id>>
vars == <<variant, user_service, user_email, generated_email, generated_subject,
          generated_to, generated_cc, draft_id, tokens, drafts, nextId,
          lastAction, lastCalls, report, fn_input, fn_output>>

----------------------------------------------------------------------------
(* Optional values and Python truthiness *)

None == <<>>
Some(v) == <<v>>
Val(x) == x[1]

\* `if x:` for an optional string or list: None, "" and [] are falsy.
Truthy(x) == x # None /\ Val(x) # <<>>

\* `if draft_id:` for an optional identifier: None and the empty identifier 0 are falsy.
TruthyId(x) == x # None /\ Val(x) # 0

\* `if service:` / `service is None` for a service object: an object is truthy.
TruthyObj(x) == x # None

----------------------------------------------------------------------------
(* String helpers, as Python computes them *)

UpperCase == <<"A","B","C","D","E","F","G","H","I","J","K","L","M",
               "N","O","P","Q","R","S","T","U","V","W","X","Y","Z">>
LowerCase == <<"a","b","c","d","e","f","g","h","i","j","k","l","m",
               "n","o","p","q","r","s","t","u","v","w","x","y","z">>

\* str.lower() on one character
lower_char(c) ==
    IF \E i \in 1..26 : UpperCase[i] = c
    THEN LowerCase[CHOOSE i \in 1..26 : UpperCase[i] = c]
    ELSE c

\* str.lower()
lower(s) == [i \in 1..Len(s) |-> lower_char(s[i])]

\* str.split(sep) for a one-character separator: always at least one piece
RECURSIVE split(_, _)
split(s, sep) ==
    IF \A i \in 1..Len(s) : s[i] # sep
    THEN <<s>>
    ELSE LET k == CHOOSE i \in 1..Len(s) :
                     s[i] = sep /\ \A j \in 1..(i-1) : s[j] # sep
         IN  <<SubSeq(s, 1, k-1)>> \o split(SubSeq(s, k+1, Len(s)), sep)

IsSpace(c) == c \in {" ", "\t", "\n"}

\* str.strip()
RECURSIVE strip(_)
strip(s) ==
    IF s = <<>> THEN s
    ELSE IF IsSpace(s[1]) THEN strip(Tail(s))
    ELSE IF IsSpace(s[Len(s)]) THEN strip(SubSeq(s, 1, Len(s)-1))
    ELSE s

----------------------------------------------------------------------------
(* Configuration and helpers of the two scripts *)

ALLOWED_DOMAINS == { <<"i","a","n","d","s",".","c","o","m">>,
                     <<"k","o","g","o",".","a","i">> }

\* is_allowed_user comparing the domain as it is written
is_allowed_user_no_lower(email) ==
    LET parts == split(email, "@")
    IN  parts[Len(parts)] \in ALLOWED_DOMAINS

\* is_allowed_user of app.py:
\*   domain = email.split("@")[-1].lower(); return domain in ALLOWED_DOMAINS
is_allowed_user(email) ==
    LET parts == split(email, "@")
    IN  lower(parts[Len(parts)]) \in ALLOWED_DOMAINS

\* is_allowed_user of app_demo.py:
\*   return email.split("@")[-1].lower() in ALLOWED_DOMAINS
is_allowed_user_demo(email) ==
    lower(split(email, "@")[Len(split(email, "@"))]) \in ALLOWED_DOMAINS

\* parse_emails keeping the pieces as they were typed
parse_emails_untrimmed(input_str) ==
    LET parts == split(input_str, ",")
        keep(p) == strip(p) # <<>>
    IN  SelectSeq(parts, keep)

\* parse_emails: [email.strip() for email in input_str.split(",") if email.strip()]
parse_emails(input_str) ==
    LET parts == split(input_str, ",")
        keep(p) == strip(p) # <<>>
    IN  [i \in 1..Len(SelectSeq(parts, keep)) |-> strip(SelectSeq(parts, keep)[i])]

\* the name of the token file of a principal
token_file(email) == <<"tokens/token_", email, ".json">>

\* sep.join(list)
RECURSIVE join(_, _)
join(list, sep) ==
    IF list = <<>> THEN <<>>
    ELSE IF Len(list) = 1 THEN list[1]
    ELSE list[1] \o sep \o join(Tail(list), sep)

\* body.replace("\n", "<br>")
RECURSIVE replace_newlines(_)
replace_newlines(body) ==
    IF body = <<>> THEN <<>>
    ELSE (IF body[1] = "\n" THEN <<"<","b","r",">">> ELSE <<body[1]>>)
         \o replace_newlines(Tail(body))

CommaSpace == <<",", " ">>

----------------------------------------------------------------------------
(* Inputs: what the operator types and what the collaborators return *)

\* addresses the provider's getProfile may return
AliceIands   == <<"a","@","i","a","n","d","s",".","c","o","m">>
BobKogoUpper == <<"b","@","K","O","G","O",".","a","i">>
EveGmail     == <<"e","@","g","m","a","i","l",".","c","o","m">>
MalSuffix    == <<"m","@","k","o","g","o",".","a","i",".","i","o">>
MalLocal     == <<"k","o","g","o",".","a","i","@","x",".","i","o">>
ProfileEmails == {AliceIands, BobKogoUpper, EveGmail, MalSuffix, MalLocal}

\* the To and CC text inputs
ToTwo    == <<"a","@","x",","," ","b","@","y"," ">>
ToBlank  == <<" ",","," ">>
CcEmpty  == <<>>
CcOne    == <<" ","c","@","z">>
\* the fillings of the form: (To, CC)
Forms == { [to |-> ToTwo, cc |-> CcOne], [to |-> ToBlank, cc |-> CcEmpty] }

\* the prompt text area (app.py rejects a blank one; app_demo.py hands it to
\* the language model as it is, whose answer is one of Responses either way)
PromptBlank == <<" ">>
PromptText  == <<"h","i">>
Prompts == {PromptBlank, PromptText}

\* the Subject text input of the basic variant
SubjectInputs == { <<"R","e">> }

\* what the language model may return: {gmail_subject, gmail_content}
Responses == { [gmail_subject |-> <<"S","1">>, gmail_content |-> <<"H","i","\n","A">>],
               [gmail_subject |-> <<"S","2">>, gmail_content |-> <<"Y","o">>] }

----------------------------------------------------------------------------
(* External calls, as the handlers issue them.  Each operator returns what  *)
(* the Python function does: the calls it issued, whether it raised, its    *)
(* return value and the provider's drafts afterwards.                       *)

Call(op, by, id, msg, ok) == [op |-> op, by |-> by, id |-> id, msg |-> msg, ok |-> ok]

\* the MIME message both Gmail actions of app_demo.py build
HtmlMessage(to_list, subject, body, cc_list) ==
    [to      |-> join(to_list, CommaSpace),
     subject |-> subject,
     cc      |-> IF Truthy(cc_list) THEN Some(join(Val(cc_list), CommaSpace)) ELSE None,
     body    |-> replace_newlines(body)]

\* the MIME message of app.py
TextMessage(to, subject, body) ==
    [to |-> to, subject |-> subject, cc |-> None, body |-> body]

\* drafts().create(...).execute() answering with identifier id, or failing
DraftsCreate(remote, owner, msg, id) == (id :> [owner |-> owner, msg |-> msg]) @@ remote

\* drafts().delete(id).execute() can only succeed on a draft of that account
CanDelete(remote, owner, id) == id \in DOMAIN remote /\ remote[id].owner = owner

DraftsDelete(remote, id) == [i \in DOMAIN remote \ {id} |-> remote[i]]

\* get_gmail_service without the domain restriction
get_gmail_service_no_domain_check(oauthOk, profile_email, files) ==
    IF ~oauthOk
    THEN [raised |-> "AuthenticationFailed", files |-> files,
          calls |-> <<Call("getProfile", None, None, None, FALSE)>>,
          service |-> None, email |-> None]
    ELSE [raised |-> "", files |-> files \cup {token_file(profile_email)},
          calls |-> <<Call("getProfile", Some(profile_email), None, None, TRUE)>>,
          service |-> Some(profile_email), email |-> Some(profile_email)]

\* get_gmail_service writing the token file before the domain restriction
get_gmail_service_write_first(oauthOk, profile_email, files) ==
    IF ~oauthOk
    THEN [raised |-> "AuthenticationFailed", files |-> files,
          calls |-> <<Call("getProfile", None, None, None, FALSE)>>,
          service |-> None, email |-> None]
    ELSE IF ~is_allowed_user(profile_email)
    THEN [raised |-> "PermissionError", files |-> files \cup {token_file(profile_email)},
          calls |-> <<Call("getProfile", Some(profile_email), None, None, TRUE)>>,
          service |-> None, email |-> None]
    ELSE [raised |-> "", files |-> files \cup {token_file(profile_email)},
          calls |-> <<Call("getProfile", Some(profile_email), None, None, TRUE)>>,
          service |-> Some(profile_email), email |-> Some(profile_email)]

\* get_gmail_service: OAuth flow, getProfile, domain check, token file, return
\* (the call logged is getProfile, by the account the OAuth flow signed in)
get_gmail_service(oauthOk, profile_email, files) ==
    IF ~oauthOk
    THEN [raised |-> "AuthenticationFailed", files |-> files,
          calls |-> <<Call("getProfile", None, None, None, FALSE)>>,
          service |-> None, email |-> None]
    ELSE IF ~is_allowed_user(profile_email)
    THEN [raised |-> "PermissionError", files |-> files,
          calls |-> <<Call("getProfile", Some(profile_email), None, None, TRUE)>>,
          service |-> None, email |-> None]
    ELSE [raised |-> "", files |-> files \cup {token_file(profile_email)},
          calls |-> <<Call("getProfile", Some(profile_email), None, None, TRUE)>>,
          service |-> Some(profile_email), email |-> Some(profile_email)]

\* create_gmail_draft returning nothing instead of the draft's identifier
create_gmail_draft_no_id(service, to_list, subject, body, cc_list, createOk, remote, id) ==
    LET msg == HtmlMessage(to_list, subject, body, cc_list) IN
    IF createOk
    THEN [raised |-> FALSE, calls |-> <<Call("create", service, Some(id), Some(msg), TRUE)>>,
          id |-> None, remote |-> DraftsCreate(remote, Val(service), msg, id)]
    ELSE [raised |-> TRUE, calls |-> <<Call("create", service, None, Some(msg), FALSE)>>,
          id |-> None, remote |-> remote]

\* create_gmail_draft of app_demo.py
create_gmail_draft(service, to_list, subject, body, cc_list, createOk, remote, id) ==
    LET msg == HtmlMessage(to_list, subject, body, cc_list) IN
    IF createOk
    THEN [raised |-> FALSE, calls |-> <<Call("create", service, Some(id), Some(msg), TRUE)>>,
          id |-> Some(id), remote |-> DraftsCreate(remote, Val(service), msg, id)]
    ELSE [raised |-> TRUE, calls |-> <<Call("create", service, None, Some(msg), FALSE)>>,
          id |-> None, remote |-> remote]

\* create_gmail_draft of app.py: the draft the provider returns is not kept
create_gmail_draft_basic(service, to, subject, body, createOk, remote, id) ==
    LET msg == TextMessage(to, subject, body) IN
    IF createOk
    THEN [raised |-> FALSE, calls |-> <<Call("create", service, Some(id), Some(msg), TRUE)>>,
          remote |-> DraftsCreate(remote, Val(service), msg, id)]
    ELSE [raised |-> TRUE, calls |-> <<Call("create", service, None, Some(msg), FALSE)>>,
          remote |-> remote]

\* workflow.invoke: the single generation call and what it answered
Generate(genOk, response) ==
    <<Call("generate", None, None, IF genOk THEN Some(response) ELSE None, genOk)>>

\* send_gmail_message with the draft deleted before the message is sent
send_gmail_message_delete_first(service, to_list, subject, body, cc_list, did, sendOk, deleteOk, remote) ==
    LET msg      == HtmlMessage(to_list, subject, body, cc_list)
        send(ok) == Call("send", service, None, Some(msg), ok)
        del(ok)  == Call("delete", service, did, None, ok)
    IN
    IF service = None
    THEN [raised |-> TRUE, calls |-> <<>>, remote |-> remote]
    ELSE IF ~TruthyId(did)
    THEN [raised |-> ~sendOk, calls |-> <<send(sendOk)>>, remote |-> remote]
    ELSE IF deleteOk /\ CanDelete(remote, Val(service), Val(did))
    THEN [raised |-> ~sendOk, calls |-> <<del(TRUE), send(sendOk)>>,
          remote |-> DraftsDelete(remote, Val(did))]
    ELSE [raised |-> TRUE, calls |-> <<del(FALSE)>>, remote |-> remote]

\* send_gmail_message of app_demo.py
send_gmail_message(service, to_list, subject, body, cc_list, did, sendOk, deleteOk, remote) ==
    LET msg      == HtmlMessage(to_list, subject, body, cc_list)
        send(ok) == Call("send", service, None, Some(msg), ok)
        del(ok)  == Call("delete", service, did, None, ok)
    IN
    IF service = None      \* None.users() raises AttributeError before any call
    THEN [raised |-> TRUE, calls |-> <<>>, remote |-> remote]
    ELSE IF ~sendOk
    THEN [raised |-> TRUE, calls |-> <<send(FALSE)>>, remote |-> remote]
    ELSE IF ~TruthyId(did)
    THEN [raised |-> FALSE, calls |-> <<send(TRUE)>>, remote |-> remote]
    ELSE IF deleteOk /\ CanDelete(remote, Val(service), Val(did))
    THEN [raised |-> FALSE, calls |-> <<send(TRUE), del(TRUE)>>,
          remote |-> DraftsDelete(remote, Val(did))]
    ELSE [raised |-> TRUE, calls |-> <<send(TRUE), del(FALSE)>>, remote |-> remote]

----------------------------------------------------------------------------
(* Initial state: both scripts set every session key to None *)

Init ==
    /\ variant \in {"basic", "approval"}
    /\ user_service = None
    /\ user_email = None
    /\ generated_email = None
    /\ generated_subject = None
    /\ generated_to = None
    /\ generated_cc = None
    /\ draft_id = None
    /\ tokens = {}
    /\ drafts = <<>>
    /\ nextId = 1
    /\ lastAction = "init"
    /\ lastCalls = <<>>
    /\ report = "none"
    /\ fn_input = None
    /\ fn_output = None

----------------------------------------------------------------------------
(* Handlers of both scripts *)

\* reset_fields forgetting the draft identifier
reset_fields_keeps_draft_id ==
    /\ generated_email' = None
    /\ generated_subject' = None
    /\ generated_to' = None
    /\ generated_cc' = None
    /\ draft_id' = draft_id

\* reset_fields of app_demo.py
reset_fields ==
    /\ generated_email' = None
    /\ generated_subject' = None
    /\ generated_to' = None
    /\ generated_cc' = None
    /\ draft_id' = None

\* "Authenticate Gmail" button, the same handler in both scripts
Authenticate ==
    /\ ~TruthyObj(user_service)
    /\ \E oauthOk \in BOOLEAN, profile_email \in ProfileEmails :
         LET r == get_gmail_service(oauthOk, profile_email, tokens) IN
         /\ tokens' = r.files
         /\ IF r.raised = ""
            THEN /\ user_service' = r.service
                 /\ user_email' = r.email
                 /\ report' = "Authenticated"
            ELSE /\ UNCHANGED session
                 /\ report' = r.raised
         /\ lastCalls' = r.calls
    /\ lastAction' = "Authenticate"
    /\ UNCHANGED <<variant, fn_input, fn_output, pending, drafts, nextId>>

\* the "Switch Account" handler removing the token file as Logout does
SwitchAccount_removes_token ==
    /\ variant = "basic"
    /\ TruthyObj(user_service)
    /\ tokens' = tokens \ {token_file(Val(user_email))}
    /\ user_service' = None
    /\ user_email' = None
    /\ lastAction' = "SwitchAccount"
    /\ lastCalls' = <<>>
    /\ report' = "none"
    /\ UNCHANGED <<variant, fn_input, fn_output, pending, drafts, nextId>>

\* "Switch Account" button of app.py
SwitchAccount ==
    /\ variant = "basic"
    /\ TruthyObj(user_service)
    /\ user_service' = None
    /\ user_email' = None
    /\ lastAction' = "SwitchAccount"
    /\ lastCalls' = <<>>
    /\ report' = "none"
    /\ UNCHANGED <<variant, fn_input, fn_output, pending, tokens, drafts, nextId>>

\* "Logout" button of app.py: removes the token file of the principal
Logout ==
    /\ variant = "basic"
    /\ TruthyObj(user_service)
    /\ tokens' = tokens \ {token_file(Val(user_email))}
    /\ user_service' = None
    /\ user_email' = None
    /\ lastAction' = "Logout"
    /\ lastCalls' = <<>>
    /\ report' = "Logged out"
    /\ UNCHANGED <<variant, fn_input, fn_output, pending, drafts, nextId>>

\* the "Logout" handler of app_demo.py forgetting user_email
LogoutDemo_keeps_email ==
    /\ variant = "approval"
    /\ TruthyObj(user_service)
    /\ user_service' = None
    /\ user_email' = user_email
    /\ lastAction' = "Logout"
    /\ lastCalls' = <<>>
    /\ report' = "none"
    /\ UNCHANGED <<variant, fn_input, fn_output, pending, tokens, drafts, nextId>>

\* "Logout" button of app_demo.py
LogoutDemo ==
    /\ variant = "approval"
    /\ TruthyObj(user_service)
    /\ user_service' = None
    /\ user_email' = None
    /\ lastAction' = "Logout"
    /\ lastCalls' = <<>>
    /\ report' = "none"
    /\ UNCHANGED <<variant, fn_input, fn_output, pending, tokens, drafts, nextId>>

\* the hard UI block of app.py stops the script before the generation section
HardBlock == Truthy(user_email) /\ ~is_allowed_user(Val(user_email))

\* "Generate & Draft Email" button of app.py: everything inside one try/except
GenerateDraft ==
    /\ variant = "basic"
    /\ ~HardBlock
    /\ TruthyObj(user_service)
    /\ nextId <= MaxDrafts
    /\ \E user_prompt \in Prompts, form \in Forms, subject \in SubjectInputs,
          genOk \in BOOLEAN, response \in Responses, createOk \in BOOLEAN :
         LET to_email == form.to IN
         IF strip(user_prompt) = <<>>
         THEN /\ lastCalls' = <<>>
              /\ report' = "Please enter a prompt"
              /\ UNCHANGED <<drafts, nextId>>
         ELSE IF ~genOk
         THEN /\ lastCalls' = Generate(FALSE, response)
              /\ report' = "Error"
              /\ UNCHANGED <<drafts, nextId>>
         ELSE LET d == create_gmail_draft_basic(user_service, to_email, subject,
                                                response.gmail_content, createOk,
                                                drafts, nextId) IN
              /\ lastCalls' = Generate(TRUE, response) \o d.calls
              /\ drafts' = d.remote
              /\ nextId' = IF d.raised THEN nextId ELSE nextId + 1
              /\ report' = IF d.raised THEN "Error" ELSE "Gmail draft created successfully!"
    /\ lastAction' = "Generate"
    /\ UNCHANGED <<variant, fn_input, fn_output, session, pending, tokens>>

\* the "Generate & Create Draft" handler clearing the pending fields when the
\* generation call fails
GenerateCreateDraft_clears_on_failure ==
    /\ variant = "approval"
    /\ TruthyObj(user_service)
    /\ nextId <= MaxDrafts
    /\ \E form \in Forms, genOk \in BOOLEAN, response \in Responses,
          createOk \in BOOLEAN :
         LET to_email == form.to
             cc_email == form.cc
         IN
         IF ~genOk
         THEN /\ lastCalls' = Generate(FALSE, response)
              /\ report' = "exception"
              /\ generated_email' = None
              /\ generated_subject' = None
              /\ generated_to' = None
              /\ generated_cc' = None
              /\ UNCHANGED <<draft_id, drafts, nextId>>
         ELSE LET to_list == parse_emails(to_email)
                  cc_list == IF cc_email # <<>> THEN Some(parse_emails(cc_email)) ELSE None
                  d == create_gmail_draft(user_service, to_list, response.gmail_subject,
                                          response.gmail_content, cc_list, createOk,
                                          drafts, nextId)
              IN
              /\ generated_email' = Some(response.gmail_content)
              /\ generated_subject' = Some(response.gmail_subject)
              /\ generated_to' = Some(to_list)
              /\ generated_cc' = cc_list
              /\ draft_id' = IF d.raised THEN draft_id ELSE d.id
              /\ drafts' = d.remote
              /\ nextId' = IF d.raised THEN nextId ELSE nextId + 1
              /\ lastCalls' = Generate(TRUE, response) \o d.calls
              /\ report' = IF d.raised THEN "exception" ELSE "Draft created"
    /\ lastAction' = "Generate"
    /\ UNCHANGED <<variant, fn_input, fn_output, session, tokens>>

\* "Generate & Create Draft" button of app_demo.py: no try/except, an exception
\* ends the script run where it is raised
GenerateCreateDraft ==
    /\ variant = "approval"
    /\ TruthyObj(user_service)
    /\ nextId <= MaxDrafts
    /\ \E form \in Forms, genOk \in BOOLEAN, response \in Responses,
          createOk \in BOOLEAN :
         LET to_email == form.to
             cc_email == form.cc
         IN
         IF ~genOk
         THEN /\ lastCalls' = Generate(FALSE, response)
              /\ report' = "exception"
              /\ UNCHANGED <<pending, drafts, nextId>>
         ELSE LET to_list == parse_emails(to_email)
                  cc_list == IF cc_email # <<>> THEN Some(parse_emails(cc_email)) ELSE None
                  d == create_gmail_draft(user_service, to_list, response.gmail_subject,
                                          response.gmail_content, cc_list, createOk,
                                          drafts, nextId)
              IN
              /\ generated_email' = Some(response.gmail_content)
              /\ generated_subject' = Some(response.gmail_subject)
              /\ generated_to' = Some(to_list)
              /\ generated_cc' = cc_list
              /\ draft_id' = IF d.raised THEN draft_id ELSE d.id
              /\ drafts' = d.remote
              /\ nextId' = IF d.raised THEN nextId ELSE nextId + 1
              /\ lastCalls' = Generate(TRUE, response) \o d.calls
              /\ report' = IF d.raised THEN "exception" ELSE "Draft created"
    /\ lastAction' = "Generate"
    /\ UNCHANGED <<variant, fn_input, fn_output, session, tokens>>

\* "Cancel" button of app_demo.py, shown while generated_email is truthy
Cancel ==
    /\ variant = "approval"
    /\ Truthy(generated_email)
    /\ reset_fields
    /\ lastAction' = "Cancel"
    /\ lastCalls' = <<>>
    /\ report' = "Email cancelled"
    /\ UNCHANGED <<variant, fn_input, fn_output, session, tokens, drafts, nextId>>

\* the "Send Email" handler dropping the session when the send raises
SendEmail_drops_session_on_failure ==
    /\ variant = "approval"
    /\ Truthy(generated_email)
    /\ \E sendOk \in BOOLEAN, deleteOk \in BOOLEAN :
         LET r == send_gmail_message(user_service, Val(generated_to),
                                     Val(generated_subject), Val(generated_email),
                                     generated_cc, draft_id, sendOk, deleteOk, drafts)
         IN
         /\ lastCalls' = r.calls
         /\ drafts' = r.remote
         /\ IF r.raised
            THEN /\ report' = "exception"
                 /\ user_service' = None
                 /\ user_email' = None
                 /\ UNCHANGED pending
            ELSE /\ report' = "Email sent successfully!"
                 /\ UNCHANGED session
                 /\ reset_fields
    /\ lastAction' = "Send"
    /\ UNCHANGED <<variant, fn_input, fn_output, tokens, nextId>>

\* "Send Email" button of app_demo.py, shown while generated_email is truthy
SendEmail ==
    /\ variant = "approval"
    /\ Truthy(generated_email)
    /\ \E sendOk \in BOOLEAN, deleteOk \in BOOLEAN :
         LET r == send_gmail_message(user_service, Val(generated_to),
                                     Val(generated_subject), Val(generated_email),
                                     generated_cc, draft_id, sendOk, deleteOk, drafts)
         IN
         /\ lastCalls' = r.calls
         /\ drafts' = r.remote
         /\ IF r.raised
            THEN /\ report' = "exception"
                 /\ UNCHANGED pending
            ELSE /\ report' = "Email sent successfully!"
                 /\ reset_fields
    /\ lastAction' = "Send"
    /\ UNCHANGED <<variant, fn_input, fn_output, session, tokens, nextId>>

Next ==
    \/ Authenticate
    \/ SwitchAccount
    \/ Logout
    \/ LogoutDemo
    \/ GenerateDraft
    \/ GenerateCreateDraft
    \/ Cancel
    \/ SendEmail

Spec == Init /\ [][Next]_vars

----------------------------------------------------------------------------
(* Vocabulary of the claims *)

Anonymous     == ~TruthyObj(user_service)
Authenticated == TruthyObj(user_service)
\* the approval section of app_demo.py is shown: Send and Cancel are available
PendingApproval == Truthy(generated_email)
PendingCleared ==
    /\ generated_email = None
    /\ generated_subject = None
    /\ generated_to = None
    /\ generated_cc = None
    /\ draft_id = None

CallsOf(calls, op) == {i \in 1..Len(calls) : calls[i].op = op}

\* the last handler was Send and its send-message call succeeded
SendSucceeded ==
    /\ lastAction = "Send"
    /\ \E i \in CallsOf(lastCalls, "send") : lastCalls[i].ok

----------------------------------------------------------------------------
(* C1: after a Send (approval variant) whose send-message call succeeded,   *)
(* the PendingDraft is cleared (all five fields None) and the session is    *)
(* Authenticated, whether the delete-draft call succeeded or failed.        *)
C1_SendClearsPendingDraft ==
    SendSucceeded => (PendingCleared /\ Authenticated)

(* C2: one Send from Authenticated+PendingApproval with a draft identifier  *)
(* issues exactly one send-message call, first; when that call succeeded    *)
(* exactly one delete-draft call for that identifier follows it; when it    *)
(* failed no delete-draft call is issued; no delete precedes the send.      *)
C2_SendThenDelete ==
    [][ (SendEmail /\ Authenticated /\ TruthyId(draft_id)) =>
          LET c == lastCalls' IN
          /\ Cardinality(CallsOf(c, "send")) = 1
          /\ c[1].op = "send"
          /\ c[1].ok  => /\ Len(c) = 2
                         /\ c[2].op = "delete"
                         /\ c[2].id = draft_id
                         /\ c[2].by = user_service
          /\ ~c[1].ok => Len(c) = 1
          /\ \A i \in CallsOf(c, "delete") :
                \E j \in 1..(i-1) : c[j].op = "send" /\ c[j].ok ]_vars

C2_Witness ==
    /\ lastAction = "Send"
    /\ Len(lastCalls) = 2
    /\ lastCalls[1].op = "send" /\ lastCalls[1].ok
    /\ lastCalls[2].op = "delete" /\ lastCalls[2].ok
    /\ PendingCleared

(* C3: a Send (approval variant) whose send-message call succeeded is       *)
(* reported to the operator as a successful send, also when the             *)
(* delete-draft call that followed failed.                                  *)
C3_DeleteFailureNotReported ==
    SendSucceeded => report = "Email sent successfully!"


(* C4: in both variants an Authenticate whose profile address has a domain  *)
(* outside the allow-list leaves the session Anonymous (user_service and    *)
(* user_email None) and shows the authorization error; no state has a       *)
(* principal whose domain is outside the allow-list.                        *)
C4_DisallowedStaysAnonymous ==
    /\ user_email # None => is_allowed_user(Val(user_email))
    /\ user_service # None => is_allowed_user(Val(user_service))
    /\ (/\ lastAction = "Authenticate"
        /\ lastCalls[1].ok
        /\ ~is_allowed_user(Val(lastCalls[1].by)))
       => (user_service = None /\ user_email = None /\ report = "PermissionError")

C4_Witness ==
    /\ lastAction = "Authenticate"
    /\ lastCalls[1].ok
    /\ lastCalls[1].by = Some(MalSuffix)
    /\ report = "PermissionError"
    /\ Anonymous

(* C5: in both variants no token file exists for an address whose domain is *)
(* outside the allow-list: a rejected Authenticate writes no token file.    *)
C5_NoTokenForDisallowed ==
    \A e \in ProfileEmails : token_file(e) \in tokens => is_allowed_user(e)

C5_Witness ==
    /\ lastAction = "Authenticate"
    /\ lastCalls[1].ok
    /\ lastCalls[1].by = Some(EveGmail)
    /\ tokens = {token_file(AliceIands)}

(* C6: in both variants a Logout from Authenticated leaves the session      *)
(* Anonymous with no token file for the principal that was logged in.       *)
C6_LogoutRemovesCredential ==
    [][ ((Logout \/ LogoutDemo) /\ Authenticated) =>
          (Anonymous' /\ token_file(Val(user_email)) \notin tokens') ]_vars

(* C7: approval variant: whenever a PendingDraft exists (generated_email is *)
(* set) the session is Authenticated, as the principal whose Generate       *)
(* created the draft it refers to; so Send and Cancel are never available   *)
(* while Anonymous.                                                         *)
C7_PendingDraftOwnedBySession ==
    generated_email # None =>
        /\ Authenticated
        /\ (TruthyId(draft_id) /\ Val(draft_id) \in DOMAIN drafts)
              => drafts[Val(draft_id)].owner = Val(user_service)

GenerationFailed == \E i \in CallsOf(lastCalls, "generate") : ~lastCalls[i].ok

(* C9: in both variants a Generate whose generation call fails leaves the   *)
(* session state as it was (principal, credential, every PendingDraft       *)
(* field) and issues no draft-create call.                                  *)
C9_GenerationFailureChangesNothing ==
    [][ ((GenerateDraft \/ GenerateCreateDraft) /\ GenerationFailed') =>
          /\ UNCHANGED <<user_service, user_email, generated_email, generated_subject,
                         generated_to, generated_cc, draft_id, tokens, drafts>>
          /\ CallsOf(lastCalls', "create") = {} ]_vars

C9_Witness ==
    /\ lastAction = "Generate"
    /\ GenerationFailed
    /\ PendingApproval
    /\ TruthyId(draft_id)

(* C10: approval variant: Cancel from Authenticated+PendingApproval resets  *)
(* all five PendingDraft fields to None, leaves the principal, the          *)
(* credential and the token files unchanged (the session stays              *)
(* Authenticated) and issues no send-message and no delete-draft call.      *)
C10_CancelDiscardsPendingDraft ==
    [][ (Cancel /\ Authenticated) =>
          /\ PendingCleared'
          /\ Authenticated'
          /\ UNCHANGED <<user_service, user_email, tokens, drafts>>
          /\ CallsOf(lastCalls', "send") = {}
          /\ CallsOf(lastCalls', "delete") = {} ]_vars

C10_Witness ==
    /\ lastAction = "Cancel"
    /\ Authenticated
    /\ PendingCleared
    /\ drafts # <<>>

(* C11: approval variant: a draft-create call is issued only with a         *)
(* non-empty recipients list; a Generate+Draft whose To input parses to an  *)
(* empty list creates no remote draft and no PendingDraft.                  *)
C11_NoDraftWithoutRecipients ==
    variant = "approval" =>
        /\ \A i \in CallsOf(lastCalls, "create") : Val(lastCalls[i].msg).to # <<>>
        /\ \A id \in DOMAIN drafts : drafts[id].msg.to # <<>>
        /\ generated_to # Some(<<>>)

----------------------------------------------------------------------------
(* A session populated other than by a passing Authenticate: the case the   *)
(* hard UI block of app.py is written for.                                  *)

CorruptEmails == {EveGmail}

CorruptSession ==
    /\ \E e \in CorruptEmails :
         /\ user_service' = Some(e)
         /\ user_email' = Some(e)
    /\ lastAction' = "Corrupt"
    /\ lastCalls' = <<>>
    /\ report' = "none"
    /\ UNCHANGED <<variant, fn_input, fn_output, pending, tokens, drafts, nextId>>

NextCorrupt ==
    \/ Next
    \/ CorruptSession

SpecCorrupt == Init /\ [][NextCorrupt]_vars

\* the access gate holds for the principal of the session
GateHolds == Truthy(user_email) /\ is_allowed_user(Val(user_email))

(* C12: in both variants every generation, draft-create and send call is    *)
(* issued only while the access gate holds for the session principal, also  *)
(* in a session whose user_email was populated with a disallowed address    *)
(* other than by a passing Authenticate.                                    *)
C12_ActionsOnlyUnderGate ==
    (lastAction \in {"Generate", "Send"} /\ lastCalls # <<>>) => GateHolds

\* the same, of the basic variant alone
C12_BasicOnly == variant = "basic" => C12_ActionsOnlyUnderGate

----------------------------------------------------------------------------
(* The access gate as a function: is_allowed_user applied to one address    *)

\* the other case of a character
upper_char(c) ==
    IF \E i \in 1..26 : LowerCase[i] = c
    THEN UpperCase[CHOOSE i \in 1..26 : LowerCase[i] = c]
    ELSE c

\* every way of writing a lower-case string in mixed case
RECURSIVE CaseVariants(_)
CaseVariants(d) ==
    IF d = <<>> THEN {<<>>}
    ELSE {<<c>> \o t : c \in {d[1], upper_char(d[1])}, t \in CaseVariants(Tail(d))}

\* the allow-list as the specification writes it
AllowList == { <<"i","a","n","d","s",".","c","o","m">>, <<"k","o","g","o",".","a","i">> }
AllowListAnyCase == UNION {CaseVariants(d) : d \in AllowList}

\* domains that are not on the allow-list
OtherDomains == { <<>>,
                  <<"g","m","a","i","l",".","c","o","m">>,
                  <<"k","o","g","o",".","a","i",".","i","o">>,
                  <<"x","k","o","g","o",".","a","i">>,
                  <<"k","o","g","o",".","a">>,
                  <<"K","O","G","O",".","A","I"," ">>,
                  <<"i","a","n","d","s","c","o","m">>,
                  <<"I","a","n","d","s",".","c","o">> }

GateDomains == AllowListAnyCase \cup OtherDomains

GateLocals == { <<>>, <<"a">>, <<"A",".","b">>, <<"x","@","y">>,
                <<"k","o","g","o",".","a","i">> }

\* the addresses the gate is applied to: with and without an "@"
GateInputs == {l \o <<"@">> \o d : l \in GateLocals, d \in GateDomains} \cup GateDomains

InitAllowed ==
    /\ variant \in {"basic", "approval"}
    /\ user_service = None
    /\ user_email = None
    /\ generated_email = None
    /\ generated_subject = None
    /\ generated_to = None
    /\ generated_cc = None
    /\ draft_id = None
    /\ tokens = {}
    /\ drafts = <<>>
    /\ nextId = 1
    /\ lastAction = "init"
    /\ lastCalls = <<>>
    /\ report = "none"
    /\ fn_input \in GateInputs
    /\ fn_output = None

\* both scripts' is_allowed_user applied to the address
ApplyIsAllowed ==
    /\ fn_output = None
    /\ fn_output' = Some([basic |-> is_allowed_user(fn_input),
                          demo  |-> is_allowed_user_demo(fn_input)])
    /\ lastAction' = "is_allowed_user"
    /\ UNCHANGED <<variant, fn_input, session, pending, tokens, drafts, nextId,
                   lastCalls, report>>

NextAllowed == ApplyIsAllowed

SpecAllowed == InitAllowed /\ [][NextAllowed]_vars

\* the part of an address after its last "@" (the whole of it without one)
DomainPart(e) ==
    LET ats == {i \in 1..Len(e) : e[i] = "@"}
        k   == IF ats = {} THEN 0 ELSE CHOOSE i \in ats : \A j \in ats : j <= i
    IN  SubSeq(e, k + 1, Len(e))

(* C13: is_allowed_user(e) is true exactly when the part of e after its     *)
(* last "@", compared without regard to letter case, is iands.com or        *)
(* kogo.ai, whatever the local part; app.py and app_demo.py agree.          *)
C13_GateIsDomainMembership ==
    fn_output # None =>
        /\ Val(fn_output).basic = (DomainPart(fn_input) \in AllowListAnyCase)
        /\ Val(fn_output).demo = Val(fn_output).basic

C13_Witness ==
    /\ fn_input = <<"x","@","y","@","K","o","G","o",".","A","i">>
    /\ fn_output = Some([basic |-> TRUE, demo |-> TRUE])

----------------------------------------------------------------------------
\* the last handler issued an external call that failed
ActionFailed == \E i \in 1..Len(lastCalls) : ~lastCalls[i].ok

\* the generation section is shown to a session with this service and address
GenerateShownTo(service, email) ==
    /\ TruthyObj(service)
    /\ variant = "basic" => ~(Truthy(email) /\ ~is_allowed_user(Val(email)))

GenerateAvailable == GenerateShownTo(user_service, user_email)

(* C14: in both variants a generate, create-draft, send or delete call that *)
(* fails leaves the session Authenticated with user_service and user_email  *)
(* as they were and the Generate action available; a failed Authenticate    *)
(* leaves the session Anonymous, where Authenticate is available.           *)
C14_FailuresKeepSession ==
    [][ /\ (lastAction' \in {"Generate", "Send"} /\ Authenticated /\ ActionFailed') =>
            /\ UNCHANGED session
            /\ Authenticated'
            /\ GenerateShownTo(user_service', user_email')
        /\ (lastAction' = "Authenticate" /\ report' # "Authenticated") =>
            (UNCHANGED session /\ Anonymous') ]_vars

C14_Witness ==
    /\ lastAction = "Send"
    /\ Len(lastCalls) = 2
    /\ ~lastCalls[2].ok
    /\ Authenticated
    /\ GenerateAvailable

(* C15: approval variant: a PendingDraft leads to at most one successful    *)
(* send-message call: once a Send has delivered it, a following Send        *)
(* (no Generate in between, whatever the delete-draft call did) issues no   *)
(* further successful send call.                                            *)
C15_AtMostOneSendPerPendingDraft ==
    [][ (SendSucceeded /\ lastAction' = "Send") =>
          \A i \in CallsOf(lastCalls', "send") : ~lastCalls'[i].ok ]_vars

(* C16: approval variant: in every state with a PendingDraft, draft_id is   *)
(* set and names the remote draft created from exactly the pending          *)
(* recipients, cc, subject and body; a failing draft-create call leaves no  *)
(* generated content paired with a missing or earlier identifier.           *)
C16_PendingDraftMatchesRemoteDraft ==
    generated_email # None =>
        /\ TruthyId(draft_id)
        /\ Val(draft_id) \in DOMAIN drafts
        /\ drafts[Val(draft_id)].msg =
             HtmlMessage(Val(generated_to), Val(generated_subject),
                         Val(generated_email), generated_cc)

(* C17: approval variant: a Generate+Draft never leaves a previously        *)
(* created remote draft unreferenced: every remote draft the PendingDraft   *)
(* does not refer to after the step was already unreferenced before it      *)
(* (orphaned by Cancel or by a failed delete after a send).                 *)
C17_GenerateOrphansNoDraft ==
    [][ (variant = "approval" /\ lastAction' = "Generate") =>
          \A id \in DOMAIN drafts' :
              draft_id' # Some(id) => (id \in DOMAIN drafts /\ draft_id # Some(id)) ]_vars

(* C18: basic variant: an Authenticate with an allowed domain makes the     *)
(* session Authenticated as that principal with its one token file present  *)
(* and the other files untouched; Switch Account makes the session          *)
(* Anonymous and leaves every token file as it was; a token file            *)
(* disappears only by Logout, and then it is the current principal's.       *)
C18_BasicCredentialFiles ==
    [][ variant = "basic" =>
          /\ (/\ lastAction' = "Authenticate"
              /\ lastCalls'[1].ok
              /\ is_allowed_user(Val(lastCalls'[1].by))) =>
                 /\ user_service' = lastCalls'[1].by
                 /\ user_email' = lastCalls'[1].by
                 /\ tokens' = tokens \cup {token_file(Val(lastCalls'[1].by))}
                 /\ Cardinality({f \in tokens' : f[2] = Val(lastCalls'[1].by)}) = 1
          /\ lastAction' = "SwitchAccount" =>
                 /\ user_service' = None
                 /\ user_email' = None
                 /\ tokens' = tokens
          /\ \A f \in tokens \ tokens' :
                 /\ lastAction' = "Logout"
                 /\ f = token_file(Val(user_email)) ]_vars

C18_Witness ==
    /\ variant = "basic"
    /\ lastAction = "SwitchAccount"
    /\ Anonymous
    /\ tokens = {token_file(AliceIands), token_file(BobKogoUpper)}

----------------------------------------------------------------------------
(* parse_emails as a function: applied to one text input                    *)

ParseAlphabet == {"a", "b", ",", " "}

RECURSIVE StringsUpTo(_)
StringsUpTo(n) ==
    IF n = 0 THEN {<<>>}
    ELSE LET shorter == StringsUpTo(n - 1) IN
         shorter \cup {Append(s, c) : s \in {t \in shorter : Len(t) = n - 1},
                                      c \in ParseAlphabet}

ParseInputs == StringsUpTo(MaxInputLen)

InitParse ==
    /\ variant = "approval"
    /\ user_service = None
    /\ user_email = None
    /\ generated_email = None
    /\ generated_subject = None
    /\ generated_to = None
    /\ generated_cc = None
    /\ draft_id = None
    /\ tokens = {}
    /\ drafts = <<>>
    /\ nextId = 1
    /\ lastAction = "init"
    /\ lastCalls = <<>>
    /\ report = "none"
    /\ fn_input \in ParseInputs
    /\ fn_output = None

ApplyParseEmails ==
    /\ fn_output = None
    /\ fn_output' = Some(parse_emails(fn_input))
    /\ lastAction' = "parse_emails"
    /\ UNCHANGED <<variant, fn_input, session, pending, tokens, drafts, nextId,
                   lastCalls, report>>

NextParse == ApplyParseEmails

SpecParse == InitParse /\ [][NextParse]_vars

\* the k-th comma-separated piece of s, by the positions of its commas
Piece(s, k) ==
    LET commas == {i \in 1..Len(s) : s[i] = ","}
        at(n)  == IF n = 0 THEN 0
                  ELSE IF n > Cardinality(commas) THEN Len(s) + 1
                  ELSE CHOOSE i \in commas : Cardinality({j \in commas : j < i}) = n - 1
    IN  SubSeq(s, at(k - 1) + 1, at(k) - 1)

\* p without its leading and trailing whitespace, by the positions of the rest
Trimmed(p) ==
    LET solid == {i \in 1..Len(p) : ~IsSpace(p[i])} IN
    IF solid = {} THEN <<>>
    ELSE SubSeq(p, CHOOSE i \in solid : \A j \in solid : i <= j,
                   CHOOSE i \in solid : \A j \in solid : j <= i)

NonEmpty(p) == p # <<>>

\* the trimmed pieces of s that are not empty, in input order
TrimmedPieces(s) ==
    LET n == Cardinality({i \in 1..Len(s) : s[i] = ","}) + 1
    IN  SelectSeq([k \in 1..n |-> Trimmed(Piece(s, k))], NonEmpty)

(* C19: parse_emails(s) is, in input order, the comma-separated pieces of s *)
(* that are non-empty after trimming, each trimmed; no element is empty or  *)
(* begins or ends with whitespace; trimming the result again, or parsing    *)
(* it joined by commas, gives the same list.                                *)
C19_ParseEmailsTrimsAndFilters ==
    fn_output # None =>
        LET r == Val(fn_output) IN
        /\ r = TrimmedPieces(fn_input)
        /\ \A i \in 1..Len(r) :
              /\ r[i] # <<>>
              /\ ~IsSpace(r[i][1])
              /\ ~IsSpace(r[i][Len(r[i])])
        /\ [i \in 1..Len(r) |-> strip(r[i])] = r
        /\ parse_emails(join(r, <<",">>)) = r

C19_Witness ==
    /\ fn_input = <<" ", "b", ",", "a">>
    /\ fn_output = Some(<< <<"b">>, <<"a">> >>)

(* C20: in both variants the generation call and the draft-create call are  *)
(* issued only by a session that is Authenticated, the Authenticate handler *)
(* runs only in a session that is Anonymous, and user_service and           *)
(* user_email are either both set or both None.                             *)
C20_SessionGatesCalls ==
    [][ /\ lastAction' = "Authenticate" => Anonymous
        /\ (CallsOf(lastCalls', "generate") \cup CallsOf(lastCalls', "create") # {}) =>
              (Authenticated /\ Authenticated')
        /\ (user_service = None) <=> (user_email = None)
        /\ (user_service' = None) <=> (user_email' = None) ]_vars

C20_Witness ==
    /\ lastAction = "Generate"
    /\ CallsOf(lastCalls, "create") # {}
    /\ Authenticated
    /\ user_email = Some(BobKogoUpper)
    /\ tokens = {token_file(AliceIands), token_file(BobKogoUpper)}

====
